---- MODULE Spec2Model ----
(***************************************************************************)
(* State-machine model of isochrome.py: the Streamlit driver script, the   *)
(* IsochroneAnalyzer (load_kml, retry_request, generate_isochrones,        *)
(* display_summary) and the single-point branch of the driver.             *)
(*                                                                         *)
(* The OpenRouteService client is the environment: each invocation of the  *)
(* request thunk ends in one of four ways, chosen nondeterministically:    *)
(*   "ok"            a feature collection is returned                      *)
(*   "rate_limited"  an ApiError raised for the rate-limit condition       *)
(*   "api_error"     an ApiError raised for any other cause                *)
(*   "error"         an exception that is not an ApiError                  *)
(* The only exception class retry_request distinguishes is ApiError, so    *)
(* the rate-limit condition reaches it as an ApiError. A returned feature  *)
(* carries 'value' and may carry 'area', as the service documents it. An   *)
(* uploaded file is one geopandas can read.                                *)
(* Areas are integers (square metres); a summary's total_area_km2 is kept  *)
(* in hundredths of a square kilometre (round(x / 1e6, 2) * 100).          *)
(* The folium map is not part of the state; of each layer only the waktu   *)
(* label is kept.                                                          *)
(***************************************************************************)
EXTENDS Integers, Sequences, FiniteSets, TLC

\* ------------------------------------------------------------------ bounds
\* Largest exterior ring (in vertices) among the modelled boundary files.
MaxVertices == 6

\* ------------------------------------------------------- program constants
\* retry_request(self, func, max_retries=3, wait=5): every caller uses the default.
max_retries == 3

\* ---------------------------------------------------------------- helpers
RECURSIVE SumSeq(_)
SumSeq(s) == IF s = <<>> THEN 0 ELSE Head(s) + SumSeq(Tail(s))

RECURSIVE Flatten(_)
Flatten(ss) == IF ss = <<>> THEN <<>> ELSE Head(ss) \o Flatten(Tail(ss))

\* ------------------------------------------------------------ the UI inputs
\* st.radio("Pilih jenis input:", ...)
InputTypes == {"File KML", "Titik Koordinat"}

\* st.multiselect("Pilih profil perjalanan:", ...): the selections explored.
ProfileLists == { <<>>, <<"driving-car">>, <<"driving-traffic", "foot-walking">> }

\* st.radio("Pilih tipe jangkauan:") with the multiselect of its branch: the
\* (range_type, nilai_range) pairs explored.
RangeChoices ==
    { [range_type |-> "Waktu (menit)", nilai_range |-> <<5>>],
      [range_type |-> "Waktu (menit)", nilai_range |-> <<5, 10>>],
      [range_type |-> "Jarak (meter)", nilai_range |-> <<1000>>] }

\* converted_range: minutes become seconds, metres are kept.
ConvertedRange(rc) ==
    IF rc.range_type = "Waktu (menit)"
    THEN [k \in 1..Len(rc.nilai_range) |-> rc.nilai_range[k] * 60]
    ELSE rc.nilai_range

\* st.slider("Sampling Titik", min 5, max 50, step 5): the values explored.
Samplings == {5, 10}

\* An uploaded KML document: the sequence of its geometries; a geometry has a
\* geom_type and, per polygon part, the number of vertices of its exterior ring.
Geom(t, rings) == [geom_type |-> t, rings |-> rings]
NoFile == [uploaded |-> FALSE, geoms |-> <<>>]
KmlFile(geoms) == [uploaded |-> TRUE, geoms |-> geoms]
KmlFiles ==
    { KmlFile(<<>>),
      KmlFile(<<Geom("Point", <<>>)>>),
      KmlFile(<<Geom("Polygon", <<4>>)>>),
      KmlFile(<<Geom("Polygon", <<MaxVertices>>)>>),
      KmlFile(<<Geom("Point", <<>>), Geom("MultiPolygon", <<4, 4>>)>>) }

\* The coordinate text, as the fields that split(",") yields: a field is "num"
\* when float() accepts it and "text" when it does not (the empty field included).
CoordInputs ==
    { <<"num", "num">>, <<"text">>, <<"num">>, <<"num", "text">>,
      <<"num", "num", "num">> }
NoCoordinate == <<>>

\* lon, lat = map(float, coordinate_input.split(",")): succeeds only on exactly
\* two fields that both convert.
CoordParsesLenient(c) == Len(c) >= 2 /\ c[1] = "num" /\ c[2] = "num"
CoordParses(c) == Len(c) = 2 /\ \A k \in 1..Len(c) : c[k] = "num"

\* ------------------------------------------------------------- load_kml
\* gdf_kml.empty
GdfEmpty(file) == file.geoms = <<>>

\* list(geom.exterior.coords) of polygon part `part` of geometry g: a vertex is
\* identified by (geometry, part, position).
RingCoords(g, part, n) == [k \in 1..n |-> <<g, part, k>>]

\* The exterior-ring vertices that one geometry contributes to boundary_points.
GeomBoundary(file, g) ==
    LET geom == file.geoms[g] IN
    IF geom.geom_type \in {"Polygon", "MultiPolygon"}
    THEN Flatten([part \in 1..Len(geom.rings) |->
                     RingCoords(g, part, geom.rings[part])])
    ELSE <<>>

\* boundary_points after the loop over gdf_kml.geometry.
BoundaryPoints(file) ==
    Flatten([g \in 1..Len(file.geoms) |-> GeomBoundary(file, g)])

\* seq[::n] cut short: only the full strides are kept.
SliceFloor(seq, n) ==
    [k \in 1..(Len(seq) \div n) |-> seq[(k - 1) * n + 1]]

\* seq[::n]: the elements at (0-based) positions 0, n, 2n, ...
Slice(seq, n) ==
    [k \in 1..((Len(seq) + n - 1) \div n) |-> seq[(k - 1) * n + 1]]

\* self.koordinat_list as load_kml leaves it.
KoordinatList(file, n) == Slice(BoundaryPoints(file), n)

\* ------------------------------------------------- the isochrone service
\* The reported areas a feature may carry (square metres); "area" may be absent.
AreaValues == {6000, 1000000}

\* feature["properties"] of one returned feature.
Properties(v) ==
    { [value |-> v] } \cup { [value |-> v, area |-> a] : a \in AreaValues }

\* The feature collections the service may return for a request with `range`:
\* one feature per threshold, carrying that threshold as its value.
RECURSIVE Responses(_)
Responses(range) ==
    IF range = <<>> THEN { <<>> }
    ELSE { <<p>> \o rest : p \in Properties(Head(range)), rest \in Responses(Tail(range)) }

FailureKinds == {"rate_limited", "api_error", "error"}
Outcomes(range) ==
    { [kind |-> "ok", features |-> r] : r \in Responses(range) }
    \cup { [kind |-> k, features |-> <<>>] : k \in FailureKinds }

\* except openrouteservice.exceptions.ApiError: the class is caught whatever
\* the cause of the API error.
IsApiError(kind) == kind \in {"rate_limited", "api_error"}

\* ---------------------------------------------------------- aggregation
\* feature["properties"].get("area", 0)
FeatureArea(props) == IF "area" \in DOMAIN props THEN props["area"] ELSE 0

\* waktu = feature['properties']['value'] // 60
Waktu(props) == props["value"] \div 60

\* total_area_m2 after the loop over isochrones["features"] (total += area_m2).
AccumulateLast(total, features) ==
    IF features = <<>> THEN total
    ELSE total + FeatureArea(features[Len(features)])
Accumulate(total, features) ==
    total + SumSeq([k \in 1..Len(features) |-> FeatureArea(features[k])])

\* round(total_area_m2 / 1e6, 2), in hundredths of a km2. The modelled areas
\* never sum to an exact half of a hundredth, where float rounding decides.
ToKm2(total) == (total + 5000) \div 10000

\* area_summary.append({"profile": ..., "total_area_km2": ...})
SummaryPrepend(summary, profile, total) ==
    <<[profile |-> profile, total_area_km2 |-> ToKm2(total)]>> \o summary
SummaryAppend(summary, profile, total) ==
    Append(summary, [profile |-> profile, total_area_km2 |-> ToKm2(total)])

\* ------------------------------------------------------------------ state
VARIABLES
    run_analysis,       \* st.session_state.run_analysis
    input_type, file_kml, coordinate_input, profile_list, range_type,
    converted_range, sampling,      \* the widget values of this script execution
    pressed,            \* what st.button returned in this script execution
    pc,                 \* position of the script execution
    path_kml,           \* TRUE when the name path_kml is bound in this execution
    koordinat_list,     \* analyzer.koordinat_list
    area_summary,       \* analyzer.area_summary
    local_area_summary, \* area_summary of the single-point branch
    shown,              \* TRUE once the summary and the map have been displayed
    pidx,               \* position of `profile` in profile_list (1-based)
    idx,                \* position of `koordinat` in koordinat_list (1-based)
    total_area_m2,
    isochrones,         \* the feature collection retry_request returned
    waktu,              \* the waktu labels of the layers added for isochrones
    request,            \* arguments of the client.isochrones call being made
    attempt, calls, sleeps,  \* retry_request: loop variable, func() calls, time.sleep(wait) calls
    outcomes,           \* how each func() call of this retry_request ended
    raised,             \* the exception in flight or escaped ("none" when none)
    requested,          \* (pidx, idx) pairs for which client.isochrones was called
    n_calls,            \* client.isochrones calls made in this script execution
    log,                \* per point of the current profile: how its request ended
    paced,              \* time.sleep(2.5) calls since the last retry_request ended
    messages            \* st.warning / st.error messages emitted in this execution

inputs == <<input_type, file_kml, coordinate_input, profile_list, range_type,
            converted_range, sampling, pressed>>
retry == <<attempt, calls, sleeps, outcomes>>
vars == <<run_analysis, inputs, pc, path_kml, koordinat_list, area_summary,
          local_area_summary, shown, pidx, idx, total_area_m2, isochrones, waktu,
          request, retry, raised, requested, n_calls, log, paced, messages>>

NoRequest == [location |-> <<0, 0, 0>>, profile |-> "", range |-> <<>>, traffic |-> FALSE]
Pending == [status |-> "pending", features |-> <<>>]
Region == input_type = "File KML"

\* The script-local state at the top of a script execution.
FreshLocals ==
    /\ path_kml = FALSE
    /\ koordinat_list = <<>>
    /\ area_summary = <<>>
    /\ local_area_summary = <<>>
    /\ shown = FALSE
    /\ pidx = 1
    /\ idx = 1
    /\ total_area_m2 = 0
    /\ isochrones = <<>>
    /\ waktu = <<>>
    /\ request = NoRequest
    /\ attempt = 0 /\ calls = 0 /\ sleeps = 0 /\ outcomes = <<>>
    /\ raised = "none"
    /\ requested = {}
    /\ n_calls = 0
    /\ log = <<>>
    /\ paced = 0
    /\ messages = {}

\* The script-local state a new script execution starts from.
ResetLocals ==
    /\ path_kml' = FALSE
    /\ koordinat_list' = <<>>
    /\ area_summary' = <<>>
    /\ local_area_summary' = <<>>
    /\ shown' = FALSE
    /\ pidx' = 1
    /\ idx' = 1
    /\ total_area_m2' = 0
    /\ isochrones' = <<>>
    /\ waktu' = <<>>
    /\ request' = NoRequest
    /\ attempt' = 0 /\ calls' = 0 /\ sleeps' = 0 /\ outcomes' = <<>>
    /\ raised' = "none"
    /\ requested' = {}
    /\ n_calls' = 0
    /\ log' = <<>>
    /\ paced' = 0
    /\ messages' = {}

Init ==
    /\ run_analysis = FALSE
    /\ input_type = "File KML"
    /\ file_kml = NoFile
    /\ coordinate_input = NoCoordinate
    /\ pressed = FALSE
    /\ profile_list = <<>>
    /\ range_type = "Waktu (menit)"
    /\ converted_range = <<>>
    /\ sampling = 5
    /\ pc = "idle"
    /\ FreshLocals

\* --------------------------------------------------------- the driver script
\* One execution of the script from its top to line 175: the widgets are read,
\* the button may have been pressed, and the run flag decides whether the
\* analysis block is entered. Every script-local name starts unbound.
ScriptRun ==
    /\ pc = "idle"
    /\ \E it \in InputTypes, rc \in RangeChoices, pl \in ProfileLists,
          s \in Samplings, b \in BOOLEAN :
         /\ input_type' = it
         /\ \E f \in (IF it = "File KML" THEN KmlFiles \cup {NoFile} ELSE {NoFile}),
               c \in (IF it = "Titik Koordinat" THEN CoordInputs ELSE {NoCoordinate}) :
              file_kml' = f /\ coordinate_input' = c
         /\ range_type' = rc.range_type
         /\ converted_range' = ConvertedRange(rc)
         /\ profile_list' = pl
         /\ sampling' = s
         /\ pressed' = b
         /\ run_analysis' = (run_analysis \/ b)
         /\ pc' = IF run_analysis' THEN "driver" ELSE "end"
    /\ UNCHANGED <<path_kml, koordinat_list, area_summary, local_area_summary,
                   shown, pidx, idx, total_area_m2, isochrones, waktu, request,
                   retry, raised, requested, n_calls, log, paced, messages>>

\* The end of a script execution that also clears the run flag.
ScriptEndClearsFlag ==
    /\ pc \in {"end", "crashed"}
    /\ pc' = "idle"
    /\ ResetLocals
    /\ run_analysis' = FALSE
    /\ UNCHANGED inputs

\* The script execution is over (its last line was reached, or an exception
\* escaped it): its namespace is discarded; st.session_state and the widget
\* values stay for the next execution.
ScriptEnd ==
    /\ pc \in {"end", "crashed"}
    /\ pc' = "idle"
    /\ ResetLocals
    /\ UNCHANGED <<run_analysis, inputs>>

\* Lines 176-179: the uploaded file is written to temp_uploaded.kml;
\* file_kml.read() on no upload raises AttributeError, which nothing catches.
DriverKml ==
    /\ pc = "driver" /\ input_type = "File KML"
    /\ IF file_kml.uploaded
       THEN path_kml' = TRUE /\ pc' = "line237" /\ UNCHANGED raised
       ELSE pc' = "crashed" /\ raised' = "AttributeError" /\ UNCHANGED path_kml
    /\ UNCHANGED <<run_analysis, inputs, koordinat_list, area_summary,
                   local_area_summary, shown, pidx, idx, total_area_m2, isochrones,
                   waktu, request, retry, requested, n_calls, log, paced, messages>>

\* Lines 181-188 and 234-235: the coordinate text is parsed inside the try; a
\* ValueError is reported by st.error and the script goes on to line 237.
DriverParse ==
    /\ pc = "driver" /\ input_type = "Titik Koordinat"
    /\ IF CoordParses(coordinate_input)
       THEN pc' = "sp_profile" /\ UNCHANGED messages
       ELSE pc' = "line237" /\ messages' = messages \cup {"coordinate_error"}
    /\ pidx' = 1
    /\ local_area_summary' = <<>>
    /\ UNCHANGED <<run_analysis, inputs, path_kml, koordinat_list, area_summary,
                   shown, idx, total_area_m2, isochrones, waktu, request, retry,
                   raised, requested, n_calls, log, paced>>

\* Lines 237-242 up to the call of generate_isochrones: the analyzer is built
\* from path_kml (NameError when the name is unbound), then load_kml and build_map.
DriverAnalyze ==
    /\ pc = "line237"
    /\ IF ~path_kml
       THEN /\ pc' = "crashed" /\ raised' = "NameError"
            /\ UNCHANGED <<koordinat_list, messages, pidx>>
       ELSE IF GdfEmpty(file_kml)
       THEN /\ pc' = "end" /\ messages' = messages \cup {"kml_empty"}
            /\ UNCHANGED <<koordinat_list, raised, pidx>>
       ELSE /\ koordinat_list' = KoordinatList(file_kml, sampling)
            /\ pidx' = 1
            /\ pc' = "gen_profile"
            /\ UNCHANGED <<raised, messages>>
    /\ UNCHANGED <<run_analysis, inputs, path_kml, area_summary, local_area_summary,
                   shown, idx, total_area_m2, isochrones, waktu, request, retry,
                   requested, n_calls, log, paced>>

\* ------------------------------------------------------------ retry_request
\* for attempt in range(max_retries): the loop has another iteration to run.
RetryBudgetLeftOffByOne(a) == a <= max_retries
RetryBudgetLeft(a) == a < max_retries

\* The state retry_request starts from when a caller invokes it with `req`.
BeginRequest(req) ==
    /\ request' = req
    /\ attempt' = 0 /\ calls' = 0 /\ sleeps' = 0 /\ outcomes' = <<>>
    /\ pc' = "retry"

\* Lines 38-42: one func() call. A result is returned to the caller; an
\* ApiError is caught and announced by st.warning; any other exception
\* propagates out of retry_request. `outs` is what func() may do.
RetryCallWith(outs) ==
    /\ pc = "retry" /\ RetryBudgetLeft(attempt)
    /\ \E o \in outs :
         /\ calls' = calls + 1
         /\ outcomes' = Append(outcomes, o)
         /\ requested' = requested \cup {<<pidx, idx>>}
         /\ n_calls' = n_calls + 1
         /\ IF o.kind = "ok"
            THEN /\ isochrones' = o.features
                 /\ pc' = "features"
                 /\ paced' = 0
                 /\ UNCHANGED <<raised, messages>>
            ELSE IF IsApiError(o.kind)
            THEN /\ messages' = messages \cup {"rate_limit_retry"}
                 /\ pc' = "retry_sleep"
                 /\ UNCHANGED <<isochrones, raised, paced>>
            ELSE /\ raised' = "Exception"
                 /\ pc' = "raised"
                 /\ paced' = 0
                 /\ UNCHANGED <<isochrones, messages>>
    /\ UNCHANGED <<run_analysis, inputs, path_kml, koordinat_list, area_summary,
                   local_area_summary, shown, pidx, idx, total_area_m2, waktu,
                   request, attempt, sleeps, log>>

RetryCall == RetryCallWith(Outcomes(request.range))

\* Line 43 without the wait: the loop goes straight to its next iteration.
RetryNoSleep ==
    /\ pc = "retry_sleep"
    /\ attempt' = attempt + 1
    /\ pc' = "retry"
    /\ UNCHANGED <<run_analysis, inputs, path_kml, koordinat_list, area_summary,
                   local_area_summary, shown, pidx, idx, total_area_m2, isochrones,
                   waktu, request, calls, sleeps, outcomes, raised, requested, n_calls, log,
                   paced, messages>>

\* Line 43 with no wait after the last attempt of the loop.
RetrySleepNotAfterLast ==
    /\ pc = "retry_sleep"
    /\ sleeps' = IF RetryBudgetLeft(attempt + 1) THEN sleeps + 1 ELSE sleeps
    /\ attempt' = attempt + 1
    /\ pc' = "retry"
    /\ UNCHANGED <<run_analysis, inputs, path_kml, koordinat_list, area_summary,
                   local_area_summary, shown, pidx, idx, total_area_m2, isochrones,
                   waktu, request, calls, outcomes, raised, requested, n_calls, log, paced,
                   messages>>

\* Line 43: time.sleep(wait), then the next iteration of the loop.
RetrySleep ==
    /\ pc = "retry_sleep"
    /\ sleeps' = sleeps + 1
    /\ attempt' = attempt + 1
    /\ pc' = "retry"
    /\ UNCHANGED <<run_analysis, inputs, path_kml, koordinat_list, area_summary,
                   local_area_summary, shown, pidx, idx, total_area_m2, isochrones,
                   waktu, request, calls, outcomes, raised, requested, n_calls, log, paced,
                   messages>>

\* Line 44: the loop ran out; raise RuntimeError.
RetryExhausted ==
    /\ pc = "retry" /\ ~RetryBudgetLeft(attempt)
    /\ raised' = "RuntimeError"
    /\ pc' = "raised"
    /\ paced' = 0
    /\ UNCHANGED <<run_analysis, inputs, path_kml, koordinat_list, area_summary,
                   local_area_summary, shown, pidx, idx, total_area_m2, isochrones,
                   waktu, request, retry, requested, n_calls, log, messages>>

\* ------------------------------------------------------ generate_isochrones
\* A request that carries one threshold only.
IsochroneRequestOneThreshold(location, profile) ==
    [location |-> location, profile |-> profile,
     range |-> IF converted_range = <<>> THEN <<>> ELSE <<Head(converted_range)>>,
     traffic |-> (profile = "driving-traffic")]

\* The keyword arguments of client.isochrones for one (profile, location).
IsochroneRequest(location, profile) ==
    [location |-> location, profile |-> profile, range |-> converted_range,
     traffic |-> (profile = "driving-traffic")]

\* The profile loop with the point position carried over from the last profile.
GenNextProfileKeepsIdx ==
    /\ pc = "gen_profile"
    /\ IF pidx <= Len(profile_list)
       THEN /\ total_area_m2' = 0
            /\ log' = [i \in 1..Len(koordinat_list) |-> Pending]
            /\ pc' = "gen_point"
            /\ UNCHANGED <<shown, idx>>
       ELSE /\ shown' = TRUE
            /\ pc' = "end"
            /\ UNCHANGED <<total_area_m2, idx, log>>
    /\ UNCHANGED <<run_analysis, inputs, path_kml, koordinat_list, area_summary,
                   local_area_summary, pidx, isochrones, waktu, request, retry,
                   raised, requested, n_calls, paced, messages>>

\* Lines 88-91, and 130-131 with display_summary and show_map (241-242) once
\* the profile loop is over.
GenNextProfile ==
    /\ pc = "gen_profile"
    /\ IF pidx <= Len(profile_list)
       THEN /\ total_area_m2' = 0
            /\ idx' = 1
            /\ log' = [i \in 1..Len(koordinat_list) |-> Pending]
            /\ pc' = "gen_point"
            /\ UNCHANGED shown
       ELSE /\ shown' = TRUE
            /\ pc' = "end"
            /\ UNCHANGED <<total_area_m2, idx, log>>
    /\ UNCHANGED <<run_analysis, inputs, path_kml, koordinat_list, area_summary,
                   local_area_summary, pidx, isochrones, waktu, request, retry,
                   raised, requested, n_calls, paced, messages>>

\* Lines 93-101: the next point's request enters retry_request; lines 125-128
\* once the point loop is over.
GenNextPoint ==
    /\ pc = "gen_point"
    /\ IF idx <= Len(koordinat_list)
       THEN /\ BeginRequest(IsochroneRequest(koordinat_list[idx], profile_list[pidx]))
            /\ UNCHANGED <<area_summary, pidx>>
       ELSE /\ area_summary' = SummaryAppend(area_summary, profile_list[pidx], total_area_m2)
            /\ pidx' = pidx + 1
            /\ pc' = "gen_profile"
            /\ UNCHANGED <<request, retry>>
    /\ UNCHANGED <<run_analysis, inputs, path_kml, koordinat_list, local_area_summary,
                   shown, idx, total_area_m2, isochrones, waktu, raised, requested, n_calls,
                   log, paced, messages>>

\* Lines 103-120: the returned features are folded into the profile's total and
\* added to the map, then time.sleep(2.5).
GenFeatures ==
    /\ pc = "features" /\ Region
    /\ total_area_m2' = Accumulate(total_area_m2, isochrones)
    /\ waktu' = [k \in 1..Len(isochrones) |-> Waktu(isochrones[k])]
    /\ log' = [log EXCEPT ![idx] = [status |-> "ok", features |-> isochrones]]
    /\ paced' = paced + 1
    /\ idx' = idx + 1
    /\ pc' = "gen_point"
    /\ UNCHANGED <<run_analysis, inputs, path_kml, koordinat_list, area_summary,
                   local_area_summary, shown, pidx, isochrones, request, retry,
                   raised, requested, n_calls, messages>>

\* The exception leaves generate_isochrones and the script.
ExceptPointEscapes ==
    /\ pc = "raised" /\ Region
    /\ pc' = "crashed"
    /\ UNCHANGED <<run_analysis, inputs, path_kml, koordinat_list, area_summary,
                   local_area_summary, shown, pidx, idx, total_area_m2, isochrones,
                   waktu, request, retry, raised, requested, n_calls, log, paced, messages>>

\* Lines 121-123: except Exception: st.error for this point, continue.
ExceptPoint ==
    /\ pc = "raised" /\ Region
    /\ messages' = messages \cup {"point_failed"}
    /\ log' = [log EXCEPT ![idx] = [status |-> "failed", features |-> <<>>]]
    /\ raised' = "none"
    /\ idx' = idx + 1
    /\ pc' = "gen_point"
    /\ UNCHANGED <<run_analysis, inputs, path_kml, koordinat_list, area_summary,
                   local_area_summary, shown, pidx, total_area_m2, isochrones, waktu,
                   request, retry, requested, n_calls, paced>>

\* ------------------------------------------------------ single-point branch
\* Lines 190-202: the next profile's request enters retry_request; lines
\* 226-233 (summary and map displayed) once the profile loop is over.
SpNextProfile ==
    /\ pc = "sp_profile"
    /\ IF pidx <= Len(profile_list)
       THEN /\ total_area_m2' = 0
            /\ idx' = 1
            /\ BeginRequest(IsochroneRequest(<<0, 0, 0>>, profile_list[pidx]))
            /\ UNCHANGED shown
       ELSE /\ shown' = TRUE
            /\ pc' = "line237"
            /\ UNCHANGED <<total_area_m2, idx, request, retry>>
    /\ UNCHANGED <<run_analysis, inputs, path_kml, koordinat_list, area_summary,
                   local_area_summary, pidx, isochrones, waktu, raised, requested, n_calls,
                   log, paced, messages>>

\* Lines 204-224: the features are folded into the profile's total and the
\* profile's entry is appended to the local area_summary.
SpFeatures ==
    /\ pc = "features" /\ ~Region
    /\ total_area_m2' = Accumulate(total_area_m2, isochrones)
    /\ waktu' = [k \in 1..Len(isochrones) |-> Waktu(isochrones[k])]
    /\ local_area_summary' =
           SummaryAppend(local_area_summary, profile_list[pidx], total_area_m2')
    /\ pidx' = pidx + 1
    /\ pc' = "sp_profile"
    /\ UNCHANGED <<run_analysis, inputs, path_kml, koordinat_list, area_summary,
                   shown, idx, isochrones, request, retry, raised, requested, n_calls, log,
                   paced, messages>>

\* Lines 234-235: the except around the whole branch: st.error, then line 237.
ExceptDriver ==
    /\ pc = "raised" /\ ~Region
    /\ messages' = messages \cup {"coordinate_error"}
    /\ raised' = "none"
    /\ pc' = "line237"
    /\ UNCHANGED <<run_analysis, inputs, path_kml, koordinat_list, area_summary,
                   local_area_summary, shown, pidx, idx, total_area_m2, isochrones,
                   waktu, request, retry, requested, n_calls, log, paced>>

\* ------------------------------------------------------------ specification
Next ==
    \/ ScriptRun
    \/ ScriptEnd
    \/ DriverKml
    \/ DriverParse
    \/ DriverAnalyze
    \/ RetryCall
    \/ RetrySleep
    \/ RetryExhausted
    \/ GenNextProfile
    \/ GenNextPoint
    \/ GenFeatures
    \/ ExceptPoint
    \/ SpNextProfile
    \/ SpFeatures
    \/ ExceptDriver

Spec == Init /\ [][Next]_vars

\* ------------------------------------------------------------------ claims
\* generate_isochrones was entered in this script execution.
GenEntered ==
    /\ Region /\ path_kml /\ ~GdfEmpty(file_kml)
    /\ pc \notin {"idle", "driver", "line237"}

\* The script execution that entered generate_isochrones is over.
GenOver == GenEntered /\ pc \in {"end", "crashed"}

\* generate_isochrones is inside the point loop of profile pidx.
InPointLoop ==
    GenEntered /\ pc \in {"gen_point", "retry", "retry_sleep", "features", "raised"}

\* (p, i) comes before the pair (pidx, idx) being processed.
Before(p, i) == p < pidx \/ (InPointLoop /\ p = pidx /\ i < idx)

\* C1: in a region-mode run every (profile, sample point) pair is requested at
\* least once whatever happened to earlier pairs: while the run is under way
\* every pair before the current one has been requested, a failed point has
\* its failure reported, and when the run is over no pair is left out.
C1_EveryPairRequested ==
    GenEntered =>
        /\ \A p \in 1..Len(profile_list), i \in 1..Len(koordinat_list) :
              (Before(p, i) \/ pc \in {"end", "crashed"}) => <<p, i>> \in requested
        /\ \A i \in 1..Len(log) :
              log[i].status = "failed" => "point_failed" \in messages

C1_Witness ==
    /\ GenOver /\ pc = "end"
    /\ Len(profile_list) = 2 /\ Len(koordinat_list) = 2
    /\ log[1].status = "failed" /\ log[2].status = "ok"
    /\ requested = {<<1, 1>>, <<1, 2>>, <<2, 1>>, <<2, 2>>}

\* The areas reported by the successful requests of the current profile
\* (absent area counted as 0), summed over its points and thresholds.
ReportedArea(features) ==
    SumSeq([k \in 1..Len(features) |->
               IF "area" \in DOMAIN features[k] THEN features[k]["area"] ELSE 0])
LoggedArea ==
    SumSeq([i \in 1..Len(log) |->
               IF log[i].status = "ok" THEN ReportedArea(log[i].features) ELSE 0])

\* C2: throughout a profile's point loop, and so when the loop ends and the
\* total is converted, total_area_m2 is the plain sum of the areas of the
\* features of the profile's successful requests; failed points add nothing
\* and take nothing away.
C2_TotalIsPlainSum ==
    InPointLoop => total_area_m2 = LoggedArea

C2_Witness ==
    /\ GenEntered /\ pc = "gen_point" /\ pidx = 2
    /\ Len(koordinat_list) = 2 /\ idx = 3
    /\ log[1].status = "failed" /\ log[2].status = "ok"
    /\ Len(log[2].features) = 2
    /\ total_area_m2 = 1006000

\* The func() calls of the current retry_request were rate-limited K times
\* and then answered.
RateLimitedThenOk(K) ==
    /\ Len(outcomes) = K + 1
    /\ \A k \in 1..K : outcomes[k].kind = "rate_limited"
    /\ outcomes[K + 1].kind = "ok"

\* C3: K < max_retries rate-limited attempts followed by a success: retry_request
\* has returned that result after exactly K+1 calls and exactly K waits.
C3_RetryThenSuccess ==
    \A K \in 0..(max_retries - 1) :
        RateLimitedThenOk(K) =>
            /\ pc \notin {"retry", "retry_sleep", "raised"}
            /\ isochrones = outcomes[K + 1].features
            /\ calls = K + 1
            /\ sleeps = K

C3_Witness ==
    /\ RateLimitedThenOk(max_retries - 1)
    /\ pc = "features"
    /\ isochrones # <<>>
    /\ sleeps = max_retries - 1

\* Every func() call of the current retry_request was rate-limited.
AllRateLimited ==
    /\ outcomes # <<>>
    /\ \A k \in 1..Len(outcomes) : outcomes[k].kind = "rate_limited"

\* C4: func() is never called more than max_retries times; when every attempt
\* was rate-limited, retry_request ends only after exactly max_retries calls,
\* and it ends by raising RuntimeError.
C4_ExhaustedAfterMaxRetries ==
    /\ calls <= max_retries
    /\ (AllRateLimited /\ pc \notin {"retry", "retry_sleep"}) =>
          /\ calls = max_retries
          /\ pc # "features"
          /\ pc = "raised" => raised = "RuntimeError"

C4_Witness ==
    /\ AllRateLimited
    /\ pc = "raised" /\ raised = "RuntimeError"
    /\ calls = max_retries

\* C5: a first func() call that fails for a cause other than the rate limit
\* (an API error of another cause, or any other exception) ends retry_request
\* at once: one call, no wait, no retry.
C5_OtherFailurePropagates ==
    (outcomes # <<>> /\ outcomes[1].kind \in {"api_error", "error"}) =>
        /\ calls = 1
        /\ sleeps = 0
        /\ pc \notin {"retry", "retry_sleep"}

\* C6: in generate_isochrones, when the request of a point starts and a request
\* was made before it in this run, exactly one pacing pause (time.sleep(2.5))
\* has been taken since that earlier request ended.
C6_OnePauseBetweenRequests ==
    (GenEntered /\ pc = "retry" /\ calls = 0 /\ requested # {}) => paced = 1

\* C7: no exception escapes the driver script, in either input mode.
C7_NoExceptionEscapes == pc # "crashed"

\* C8: in a single-point run whose coordinate parsed, when the branch is left
\* (line 237 is reached) every profile has been requested and the summary has
\* been displayed, whatever the requests' outcomes.
C8_SinglePointIsolation ==
    (~Region /\ pc = "line237" /\ Len(coordinate_input) = 2
        /\ coordinate_input[1] = "num" /\ coordinate_input[2] = "num") =>
        /\ \A p \in 1..Len(profile_list) : <<p, 1>> \in requested
        /\ shown

\* The coordinate text is not exactly two numeric fields.
MalformedCoordinate ==
    \/ Len(coordinate_input) # 2
    \/ \E k \in 1..Len(coordinate_input) : coordinate_input[k] # "num"

\* C9: a run whose boundary file has no geometry, or whose coordinate text is
\* not exactly two numbers, dispatches no isochrone request; the empty boundary
\* is reported and the run ends without a summary.
C9_NoRequestAfterParseFailure ==
    /\ (Region /\ file_kml.geoms = <<>>) => (requested = {} /\ calls = 0)
    /\ (~Region /\ MalformedCoordinate) => (requested = {} /\ calls = 0)
    /\ (Region /\ path_kml /\ file_kml.geoms = <<>> /\ pc = "end") =>
          ("kml_empty" \in messages /\ ~shown)

C9_Witness ==
    /\ Region /\ path_kml /\ file_kml.uploaded /\ file_kml.geoms = <<>>
    /\ profile_list # <<>>
    /\ pc = "end" /\ "kml_empty" \in messages

\* h hundredths of a km2 is total (m2) divided by 1e6 and rounded to 2 decimals.
RoundsTo(total, h) == h * 10000 - 5000 <= total /\ total <= h * 10000 + 5000

\* The summary holds one entry per profile processed so far, in profile_list
\* order; the entry just appended carries the conversion of the profile's final
\* total, 0 when none of its requests succeeded; at the end it is displayed.
SummaryWellFormed ==
    GenEntered =>
        /\ Len(area_summary) = pidx - 1
        /\ \A p \in 1..Len(area_summary) : area_summary[p].profile = profile_list[p]
        /\ (pc = "gen_profile" /\ pidx > 1) =>
              /\ RoundsTo(total_area_m2, area_summary[pidx - 1].total_area_km2)
              /\ (\A i \in 1..Len(log) : log[i].status # "ok") =>
                    area_summary[pidx - 1].total_area_km2 = 0
        /\ pc = "end" => (shown /\ Len(area_summary) = Len(profile_list))

\* An entry, once appended, is never changed or removed during the run.
SummaryStable ==
    (GenEntered /\ GenEntered') =>
        /\ Len(area_summary') >= Len(area_summary)
        /\ \A p \in 1..Len(area_summary) : area_summary'[p] = area_summary[p]

\* C10: at the end of a region-mode run area_summary holds exactly one entry per
\* configured profile, in configured order, each carrying that profile's final
\* total converted to km2 (0 for a profile with no successful request).
C10_SummaryPerProfile == []SummaryWellFormed /\ [][SummaryStable]_vars

C10_Witness ==
    /\ GenOver /\ pc = "end" /\ shown
    /\ Len(koordinat_list) = 2
    /\ Len(area_summary) = 2
    /\ area_summary[1].total_area_km2 = 101
    /\ area_summary[2].total_area_km2 = 0
    /\ \A i \in 1..Len(log) : log[i].status = "failed"

\* ------------------------------------------------- load_kml on its own
\* Every value of the sampling slider (min 5, max 50, step 5).
SliderValues == { 5 * k : k \in 1..10 }

\* The geometries a boundary file is built from, and the files of up to two
\* geometries.
LoadGeoms ==
    { Geom("Point", <<>>) }
    \cup { Geom("Polygon", <<v>>) : v \in 4..MaxVertices }
    \cup { Geom("MultiPolygon", <<a, b>>) : a \in 4..MaxVertices, b \in 4..MaxVertices }
LoadFiles ==
    { KmlFile(<<>>) } \cup { KmlFile(<<g>>) : g \in LoadGeoms }
    \cup { KmlFile(<<g, h>>) : g \in LoadGeoms, h \in LoadGeoms }

\* The driver at line 237 of a File KML run, for any uploaded file and any
\* slider value; no profile is selected, so nothing is requested.
LoadInit ==
    /\ run_analysis = TRUE
    /\ input_type = "File KML"
    /\ file_kml \in LoadFiles
    /\ coordinate_input = NoCoordinate
    /\ pressed = TRUE
    /\ profile_list = <<>>
    /\ range_type = "Waktu (menit)"
    /\ converted_range = <<300>>
    /\ sampling \in SliderValues
    /\ pc = "line237"
    /\ koordinat_list = <<>>
    /\ area_summary = <<>>
    /\ local_area_summary = <<>>
    /\ shown = FALSE
    /\ pidx = 1
    /\ idx = 1
    /\ total_area_m2 = 0
    /\ isochrones = <<>>
    /\ waktu = <<>>
    /\ request = NoRequest
    /\ attempt = 0 /\ calls = 0 /\ sleeps = 0 /\ outcomes = <<>>
    /\ raised = "none"
    /\ requested = {}
    /\ n_calls = 0
    /\ log = <<>>
    /\ paced = 0
    /\ messages = {}
    /\ path_kml = TRUE

LoadSpec == LoadInit /\ [][DriverAnalyze]_vars

\* V: the exterior-ring vertices of the polygon parts of the file, in total.
TotalVertices(file) ==
    SumSeq([g \in 1..Len(file.geoms) |->
               IF file.geoms[g].geom_type \in {"Polygon", "MultiPolygon"}
               THEN SumSeq(file.geoms[g].rings) ELSE 0])

\* load_kml has returned True.
Loaded == pc = "gen_profile"

\* C11: after load_kml the sample sequence has exactly ceil(V/N) points: the
\* vertices at positions 0, N, 2N, ... of the flat sequence of exterior-ring
\* vertices, in the order the parts and vertices are met.
C11_SampleCount ==
    Loaded =>
        LET V == TotalVertices(file_kml)
            c == Len(koordinat_list)
            flat == BoundaryPoints(file_kml)
        IN  /\ Len(flat) = V
            /\ c * sampling >= V
            /\ (c - 1) * sampling < V
            /\ \A k \in 1..c : koordinat_list[k] = flat[(k - 1) * sampling + 1]
            /\ \A k \in 1..V : \A j \in 1..V :
                  (k < j) =>
                     \/ flat[k][1] < flat[j][1]
                     \/ (flat[k][1] = flat[j][1] /\ flat[k][2] < flat[j][2])
                     \/ (flat[k][1] = flat[j][1] /\ flat[k][2] = flat[j][2]
                          /\ flat[k][3] < flat[j][3])

C11_Witness ==
    /\ Loaded
    /\ TotalVertices(file_kml) = 10
    /\ sampling = 5
    /\ Len(koordinat_list) = 2
    /\ Len(file_kml.geoms) = 2

\* C12: one batched request per (profile, sample point): every request carries
\* the whole converted_range; a profile's point loop ends with every sample
\* point processed; and a run in which no request was retried and none failed
\* ends with exactly profiles x points calls to the service (profiles x 1 in a
\* single-point run), whatever the number of thresholds.
C12_OneBatchedRequestPerPair ==
    /\ pc \in {"retry", "retry_sleep", "features", "raised"} =>
          request.range = converted_range
    /\ (GenEntered /\ pc = "gen_profile" /\ pidx > 1) =>
          /\ Len(log) = Len(koordinat_list)
          /\ \A i \in 1..Len(log) : log[i].status # "pending"
    /\ (GenOver /\ pc = "end" /\ messages = {}) =>
          /\ n_calls = Len(profile_list) * Len(koordinat_list)
          /\ Cardinality(requested) = n_calls
    /\ (~Region /\ shown /\ "rate_limit_retry" \notin messages) =>
          /\ n_calls = Len(profile_list)
          /\ requested = { <<p, 1>> : p \in 1..Len(profile_list) }

C12_Witness ==
    /\ GenOver /\ pc = "end" /\ messages = {}
    /\ Len(converted_range) = 2
    /\ Len(profile_list) = 2 /\ Len(koordinat_list) = 2
    /\ n_calls = 4

\* ------------------------------------------------ the 100-vertex scenario
\* A boundary of one polygon with 100 exterior vertices.
ScenarioFile == KmlFile(<<Geom("Polygon", <<100>>)>>)

\* Every feature of the answer reports 1,000,000 m2.
ScenarioOutcomes(range) ==
    { [kind |-> "ok",
       features |-> [k \in 1..Len(range) |-> [value |-> range[k], area |-> 1000000]]] }

\* A File KML run on the scenario's boundary, the button pressed, for a few
\* slider values, profile selections and minute thresholds.
ScenarioInit ==
    /\ run_analysis = TRUE
    /\ input_type = "File KML"
    /\ file_kml = ScenarioFile
    /\ coordinate_input = NoCoordinate
    /\ pressed = TRUE
    /\ profile_list \in ProfileLists
    /\ range_type = "Waktu (menit)"
    /\ converted_range \in { <<300>>, <<300, 600, 900>> }
    /\ sampling \in {20, 25, 50}
    /\ pc = "driver"
    /\ FreshLocals

\* Every request is answered at its first attempt.
ScenarioCall == RetryCallWith(ScenarioOutcomes(request.range))

ScenarioNext ==
    \/ DriverKml
    \/ DriverAnalyze
    \/ GenNextProfile
    \/ GenNextPoint
    \/ ScenarioCall
    \/ GenFeatures

ScenarioSpec == ScenarioInit /\ [][ScenarioNext]_vars

\* 100 vertices, interval 20, 2 profiles, thresholds 5, 10 and 15 minutes.
ScenarioCase ==
    /\ file_kml = ScenarioFile
    /\ sampling = 20
    /\ Len(profile_list) = 2
    /\ converted_range = <<300, 600, 900>>

\* The calls made for profile p.
CallsFor(p) == Cardinality({ q \in requested : q[1] = p })

\* C13 as stated: the scenario's run issues 30 requests, 15 per profile.
C13_ThirtyRequests ==
    (ScenarioCase /\ pc = "end") =>
        /\ n_calls = 30
        /\ \A p \in 1..Len(profile_list) : CallsFor(p) = 15

\* C13, amended: the scenario's run has 5 sample points and issues 10 requests,
\* 5 per profile, each carrying the 3 thresholds; the 15 features per profile
\* of 1,000,000 m2 each give 15.0 km2 per profile.
C13_TenBatchedRequests ==
    ScenarioCase =>
        /\ pc \in {"retry", "features"} => Len(request.range) = 3
        /\ pc = "end" =>
              /\ Len(koordinat_list) = 5
              /\ n_calls = 10
              /\ \A p \in 1..Len(profile_list) :
                    /\ CallsFor(p) = 5
                    /\ area_summary[p].total_area_km2 = 1500

C13_Witness ==
    /\ ScenarioCase /\ pc = "end" /\ shown
    /\ Len(area_summary) = 2
    /\ n_calls = 10

\* C14: whenever load_kml has returned True, so that the driver goes on to
\* build_map and generate_isochrones, koordinat_list holds at least one point.
C14_NoEmptySampleOnSuccess ==
    (Region /\ path_kml /\ pc \in {"gen_profile", "gen_point"}) =>
        koordinat_list # <<>>

\* retry_request is running or has just ended for the pair (pidx, idx), and
\* func() has been called in it.
CurrentRequested ==
    IF InPointLoop /\ pc # "gen_point" /\ calls > 0 THEN { <<pidx, idx>> } ELSE {}

\* C15: dispatch is sequential and ordered: at every moment of a region-mode
\* run the pairs requested so far are exactly the pairs before the current
\* one in (profile, point) order, plus the current one once it has been
\* called; a call is always for the current pair, and any earlier pair's
\* retry_request has ended before it.
C15_SequentialInOrder ==
    GenEntered =>
        /\ requested =
              { q \in (1..Len(profile_list)) \X (1..Len(koordinat_list)) :
                   Before(q[1], q[2]) } \cup CurrentRequested
        /\ pc \in {"retry", "retry_sleep"} =>
              (pidx \in 1..Len(profile_list) /\ idx \in 1..Len(koordinat_list))

C15_Witness ==
    /\ GenEntered /\ pc = "retry" /\ attempt = 1
    /\ pidx = 2 /\ idx = 2
    /\ Cardinality(requested) = 4
    /\ log[1].status = "failed"

\* ------------------------------------------- a region-mode run, to its end
\* A File KML run with an uploaded file and the button pressed, one threshold.
RunInit ==
    /\ run_analysis = TRUE
    /\ input_type = "File KML"
    /\ file_kml \in KmlFiles
    /\ coordinate_input = NoCoordinate
    /\ pressed = TRUE
    /\ profile_list \in ProfileLists
    /\ range_type = "Waktu (menit)"
    /\ converted_range = <<300>>
    /\ sampling \in Samplings
    /\ pc = "driver"
    /\ FreshLocals

RunNext ==
    \/ DriverKml
    \/ DriverAnalyze
    \/ GenNextProfile
    \/ GenNextPoint
    \/ RetryCall
    \/ RetrySleep
    \/ RetryExhausted
    \/ GenFeatures
    \/ ExceptPoint

\* The script is one thread: a statement that can run does run; time.sleep
\* returns and the client call returns or raises.
FairSpec == RunInit /\ [][RunNext]_vars /\ WF_vars(RunNext)

\* The attempts of a run never exceed profiles x points x max_retries.
AttemptsBounded ==
    GenEntered =>
        n_calls <= Len(profile_list) * Len(koordinat_list) * max_retries

\* generate_isochrones has reached its end with the summary complete.
RunComplete ==
    /\ pc = "end" /\ shown
    /\ Len(area_summary) = Len(profile_list)

\* C16: a region-mode run terminates whatever the service answers, with the
\* summary complete, after at most profiles x points x max_retries attempts.
C16_RunTerminates == []AttemptsBounded /\ (GenEntered ~> RunComplete)

C16_Witness ==
    /\ GenEntered /\ RunComplete
    /\ Len(profile_list) = 2 /\ Len(koordinat_list) = 2
    /\ n_calls = Len(profile_list) * Len(koordinat_list) * max_retries

\* C17: the label of every layer is the feature's threshold integer-divided
\* by 60 when the thresholds are minutes, and the threshold itself when they
\* are metres, on the region path and on the single-point path.
C17_NormalisationByRangeTag ==
    \A k \in 1..Len(waktu) :
        waktu[k] = IF range_type = "Waktu (menit)"
                   THEN isochrones[k]["value"] \div 60
                   ELSE isochrones[k]["value"]

\* The run flag never goes from true to false, and with the flag set a script
\* execution that begins goes into the driver with no request made yet.
LatchStep ==
    /\ run_analysis => run_analysis'
    /\ (run_analysis /\ pc = "idle" /\ pc' # "idle") =>
           (pc' = "driver" /\ n_calls' = 0 /\ requested' = {})

\* C18: once the button has set run_analysis it is never cleared, and every
\* later script execution, button pressed or not, runs the analysis again and
\* issues all its requests again.
C18_RunFlagLatch ==
    /\ [](pc \notin {"idle", "end", "crashed"} => run_analysis)
    /\ [](~pressed /\ GenOver /\ pc = "end" /\ messages = {} =>
             n_calls = Len(profile_list) * Len(koordinat_list))
    /\ [][LatchStep]_vars

\* An execution without the button pressed has run the whole analysis.
C18_Witness ==
    /\ run_analysis /\ ~pressed
    /\ GenOver /\ pc = "end" /\ shown /\ messages = {}
    /\ Len(profile_list) = 2 /\ Len(koordinat_list) = 2
    /\ n_calls = 4

\* C19: retry_request waits after every attempt that failed with the rate
\* limit, the last one included: between attempts the waits equal the calls,
\* and when RuntimeError is raised there have been max_retries calls and
\* max_retries waits, the last wait followed by no call.
C19_WaitAfterEveryFailedAttempt ==
    /\ pc = "retry" => sleeps = calls
    /\ pc = "retry_sleep" => sleeps + 1 = calls
    /\ (pc = "raised" /\ raised = "RuntimeError") =>
           (calls = max_retries /\ sleeps = max_retries)

C19_Witness ==
    /\ pc = "raised" /\ raised = "RuntimeError"
    /\ attempt = max_retries
    /\ sleeps = max_retries
    /\ Len(outcomes) = max_retries

====
